---- MODULE Spec2Model ----
(***************************************************************************)
(* image-service: API-key guard, image controller, image store (records in *)
(* the document store, files on disk), the key-management scripts and the  *)
(* migration script, as one state machine.  Every `await` of the source is *)
(* a step boundary; the code between two awaits is one atomic step.        *)
(***************************************************************************)
EXTENDS Integers, Sequences, FiniteSets, TLC

\* ------------------------------------------------------------------ bounds
MaxKeys == 2
MaxImages == 2
NumProcs == 2

\* ------------------------------------------------------- program constants
\* imagelib's API_KEY_PERMISSIONS: four independent bits.
READ == 1
WRITE == 2
DELETE == 4
ADMIN == 8

\* imagelib's IMAGE_STATUS.
ACTIVE == 1
DELETED == 2

\* The allow-list MIME_TYPES.
MIME_TYPES == {"image/png", "image/jpeg", "image/webp", "image/gif", "image/svg+xml"}

\* limits: { fileSize: 10 * 1024 * 1024 } of the upload interceptor.
fileSize == 10 * 1024 * 1024

AppNames == {"a", "b"}
Procs == 1 .. NumProcs

\* ------------------------------------------------------------- exceptions
UnauthorizedException(msg) == [kind |-> "Unauthenticated", msg |-> msg]
BadRequestException(msg) == [kind |-> "InvalidInput", msg |-> msg]
NotFoundException(msg) == [kind |-> "NotFound", msg |-> msg]
\* What the transport answers when the upload interceptor refuses the body.
FileTooLarge == [kind |-> "InvalidInput", msg |-> "File too large"]
\* An exception no handler catches (JSON.parse, a failed save).
InternalError(msg) == [kind |-> "InternalError", msg |-> msg]
Ok == [kind |-> "ok", msg |-> ""]
Pending == [kind |-> "", msg |-> ""]

\* ------------------------------------------------------------------ state
VARIABLES
    keys,      \* the ApiKey collection: a sequence, ApiKeyID = position
    images,    \* the Image collection: ImageID -> record
    files,     \* the disk under IMAGE_DIR: <<AppID, FileName>> -> bytes
    dirs,      \* the tenant directories that exist under IMAGE_DIR
    nextUUID,  \* crypto.randomUUID(): the next value never returned before
    proc       \* the requests and script runs in flight

vars == <<keys, images, files, dirs, nextUUID, proc>>

\* null / undefined where the code holds a record.
NoImage == [ImageID |-> 0]
NoOut == [none |-> TRUE]
NoOpts == [none |-> TRUE]

\* A slot with no request in it.  hdr: the X-API-Key header; app: AppName of
\* request.apiKey (or the script's appName); permissions: the script's
\* mask; id: the imageID parameter; image: the local `image`; opts: the
\* list filter; res: how the request ended; out: what it returned.
Idle == [op |-> "idle", pc |-> "idle", hdr |-> 0, app |-> "", permissions |-> 0,
         id |-> 0, image |-> NoImage, opts |-> NoOpts, res |-> Pending, out |-> NoOut]

\* ---------------------------------------------------------------- helpers
RECURSIVE BitAnd(_, _)
BitAnd(a, b) ==
    IF a = 0 \/ b = 0 THEN 0
    ELSE (a % 2) * (b % 2) + 2 * BitAnd(a \div 2, b \div 2)

RECURSIVE BitOr(_, _)
BitOr(a, b) ==
    IF a = 0 THEN b
    ELSE IF b = 0 THEN a
    ELSE (IF a % 2 = 1 \/ b % 2 = 1 THEN 1 ELSE 0) + 2 * BitOr(a \div 2, b \div 2)

\* imagelib's hasApiPermission: a bit of the mask is in the required set.
hasApiPermission(permissions, required) == BitAnd(permissions, required) # 0

\* crypto.createHash('sha256').update(key).digest('hex'): deterministic and
\* free of collisions on the keys in play; raw key k (1, 2, ...) stands for
\* the k-th secret ever generated, the digest is another value.
hashKey(key) == (key * 7 + 3) % 64

\* The raw secret of the n-th key created: img_ + randomBytes(32), fresh.
rawKeyOf(n) == n

\* PERMISSION_NAMES of the key scripts.
PERMISSION_NAMES == [read |-> READ, write |-> WRITE, delete |-> DELETE, admin |-> ADMIN]

RECURSIVE OrAll(_)
OrAll(names) ==
    IF names = {} THEN 0
    ELSE LET n == CHOOSE x \in names : TRUE
         IN  BitOr(PERMISSION_NAMES[n], OrAll(names \ {n}))

\* The permission arguments the scripts are run with.
PermArgs == {{"read"}, {"read", "write"}, {"read", "write", "delete"}, {"admin"}}


\* ------------------------------------------------------------------- Init
Init ==
    /\ keys = <<>>
    /\ images = <<>>
    /\ files = <<>>
    /\ dirs = {}
    /\ nextUUID = 1
    /\ proc = [p \in Procs |-> Idle]

\* A finished request or script run leaves; its slot is free again.
Return(p) ==
    /\ proc[p].pc = "done"
    /\ proc' = [proc EXCEPT ![p] = Idle]
    /\ UNCHANGED <<keys, images, files, dirs, nextUUID>>

Finish(p, r, res) == [proc EXCEPT ![p] = [r EXCEPT !.pc = "done", !.res = res]]

\* ------------------------------------------------- key-management scripts
\* ApiKeyModel.findOne({ AppName, Active: true })
findActiveByAppName(appName) ==
    {i \in DOMAIN keys : keys[i].AppName = appName /\ keys[i].Active}

CreatesInFlight == Cardinality({p \in Procs : proc[p].op = "create-api-key" /\ proc[p].pc # "done"})

\* create-api-key: the arguments are read and the mask is built; the run
\* then waits for the connection and the findOne.
CreateKeyStart(p) ==
    /\ proc[p].op = "idle"
    /\ Len(keys) + CreatesInFlight < MaxKeys
    /\ \E appName \in AppNames, permArgs \in PermArgs \cup {{}} :
         LET permissions == IF permArgs = {} THEN BitOr(READ, WRITE) ELSE OrAll(permArgs)
         IN  proc' = [proc EXCEPT ![p] = [Idle EXCEPT !.op = "create-api-key", !.pc = "findOne",
                                          !.app = appName, !.permissions = permissions]]
    /\ UNCHANGED <<keys, images, files, dirs, nextUUID>>

\* const existing = await ApiKeyModel.findOne(...); if (existing) exit(1)
CreateKeyFind(p) ==
    /\ proc[p].op = "create-api-key" /\ proc[p].pc = "findOne"
    /\ proc' = IF findActiveByAppName(proc[p].app) # {}
               THEN Finish(p, proc[p], [kind |-> "exit(1)", msg |-> "An active API key already exists"])
               ELSE [proc EXCEPT ![p].pc = "save"]
    /\ UNCHANGED <<keys, images, files, dirs, nextUUID>>

\* The record the script builds: a fresh secret, stored hashed, Active.
NewApiKey(appName, permissions) ==
    [AppName |-> appName, Key |-> hashKey(rawKeyOf(Len(keys) + 1)),
     Permissions |-> permissions, Active |-> TRUE]

\* await apiKey.save()
CreateKeySave(p) ==
    /\ proc[p].op = "create-api-key" /\ proc[p].pc = "save"
    /\ keys' = Append(keys, NewApiKey(proc[p].app, proc[p].permissions))
    /\ proc' = Finish(p, [proc[p] EXCEPT !.hdr = rawKeyOf(Len(keys) + 1)], Ok)
    /\ UNCHANGED <<images, files, dirs, nextUUID>>

\* update-api-key <apiKeyID> <permissions...>: one updateOne.
UpdateKey ==
    /\ \E apiKeyID \in 1 .. MaxKeys, permArgs \in PermArgs :
         keys' = IF apiKeyID \in DOMAIN keys
                 THEN [keys EXCEPT ![apiKeyID].Permissions = OrAll(permArgs)]
                 ELSE keys
    /\ UNCHANGED <<images, files, dirs, nextUUID, proc>>

\* The updateOne of revoke-api-key.
Revoked(apiKeyID) ==
    IF apiKeyID \in DOMAIN keys
    THEN [keys EXCEPT ![apiKeyID].Active = FALSE]
    ELSE keys

\* revoke-api-key <apiKeyID>
RevokeKey ==
    /\ \E apiKeyID \in 1 .. MaxKeys : keys' = Revoked(apiKeyID)
    /\ UNCHANGED <<images, files, dirs, nextUUID, proc>>

\* ------------------------------------------------------------ ApiKeyGuard
HttpOps == {"upload", "getByID", "getFile", "list", "update", "delete"}

\* Mutant: upload decorated like the read routes.
RequiredPermissionPasted(handler) ==
    CASE handler = "upload"  -> READ
      [] handler = "getByID" -> READ
      [] handler = "getFile" -> READ
      [] handler = "list"    -> READ
      [] handler = "update"  -> WRITE
      [] handler = "delete"  -> DELETE

\* The @RequirePermission decorator of each handler of ImageController.
RequiredPermission(handler) ==
    CASE handler = "upload"  -> WRITE
      [] handler = "getByID" -> READ
      [] handler = "getFile" -> READ
      [] handler = "list"    -> READ
      [] handler = "update"  -> WRITE
      [] handler = "delete"  -> DELETE

\* request.headers['x-api-key'] absent (or empty): !apiKey.
NoHeader == 0
\* A header value that is the secret of no key ever created.
BogusKey == 0 - 1
\* What a client can send: nothing, a string of its own, or a secret that
\* create-api-key has printed (a secret cannot be guessed before that).
Headers == {NoHeader, BogusKey} \cup {rawKeyOf(i) : i \in DOMAIN keys}

\* Mutant: the lookup without Active: true.
findByKey(hashedKey) ==
    {i \in DOMAIN keys : keys[i].Key = hashedKey}

\* ApiKeyModel.findOne({ Key: hashedKey, Active: true })
findActiveByKey(hashedKey) ==
    {i \in DOMAIN keys : keys[i].Key = hashedKey /\ keys[i].Active}

Deny(msg) == [pass |-> FALSE, res |-> UnauthorizedException(msg), AppName |-> ""]

\* The third throw of canActivate: the key is valid, the mask is not enough.
InsufficientPermissions == Deny("Insufficient permissions")

\* ApiKeyGuard.canActivate on a request carrying apiKey for a handler.
canActivate(apiKey, handler) ==
    IF apiKey = NoHeader THEN Deny("Missing X-API-Key header")
    ELSE LET found == findActiveByKey(hashKey(apiKey))
         IN  IF found = {} THEN Deny("Invalid or inactive API key")
             ELSE LET keyRecord == keys[CHOOSE i \in found : \A j \in found : i <= j]
                      requiredPermission == RequiredPermission(handler)
                  IN  IF requiredPermission # 0
                         /\ ~hasApiPermission(keyRecord.Permissions, requiredPermission)
                      THEN InsufficientPermissions
                      ELSE [pass |-> TRUE, res |-> Pending, AppName |-> keyRecord.AppName]

\* @UseGuards(ApiKeyGuard) on the controller class: the guard runs for every
\* route of ImageController before its handler.
Guarded(handler) == TRUE

\* A request for one of the routes `handlers` arrives and the guard decides
\* it: refused, or on to the handler with request.apiKey set.
RequestFor(p, handlers) ==
    /\ proc[p].op = "idle"
    /\ \E handler \in handlers, apiKey \in Headers :
         LET g == IF Guarded(handler) THEN canActivate(apiKey, handler)
                  ELSE [pass |-> TRUE, res |-> Pending, AppName |-> ""]
             r == [Idle EXCEPT !.op = handler, !.hdr = apiKey, !.app = g.AppName, !.pc = handler]
         IN  proc' = IF g.pass THEN [proc EXCEPT ![p] = r] ELSE Finish(p, r, g.res)
    /\ UNCHANGED <<keys, images, files, dirs, nextUUID>>

Request(p) == RequestFor(p, HttpOps)

\* ----------------------------------------------------------- ImageService
\* A file name is its dot-separated pieces, each but the first with its dot:
\* "a.png" is <<"a", ".png">>.  path.extname: the last piece, '' if none.
extname(name) == IF Len(name) > 1 THEN name[Len(name)] ELSE ""

getExtFromMime(mime) ==
    CASE mime = "image/png"     -> ".png"
      [] mime = "image/jpeg"    -> ".jpg"
      [] mime = "image/webp"    -> ".webp"
      [] mime = "image/gif"     -> ".gif"
      [] mime = "image/svg+xml" -> ".svg"
      [] OTHER                  -> ".bin"

\* @UploadedFile() absent.
NoFile == [originalname |-> <<>>, mimetype |-> "", size |-> 0 - 1, buffer |-> ""]

\* The multipart file parts requests are sent with; size is the length of
\* buffer, which stands for the bytes.
FileInputs ==
    { NoFile,
      [originalname |-> <<"a", ".png">>, mimetype |-> "image/png", size |-> 1, buffer |-> "x"],
      [originalname |-> <<"e">>, mimetype |-> "image/gif", size |-> 0, buffer |-> ""],
      [originalname |-> <<"t", ".txt">>, mimetype |-> "text/plain", size |-> 1, buffer |-> "x"],
      [originalname |-> <<"big", ".png">>, mimetype |-> "image/png", size |-> fileSize + 1, buffer |-> "big"] }

\* The text fields of the multipart body: only the supplied ones are there.
UploadBodies ==
    { <<>>,
      [tags |-> "[\"t\"]", description |-> "", alt |-> ""],
      [tags |-> "oops"] }

\* JSON.parse on the strings in play: the array, or a SyntaxError.
JSONparse(text) ==
    CASE text = "[\"t\"]" -> [ok |-> TRUE, value |-> <<"t">>]
      [] text = "[]"       -> [ok |-> TRUE, value |-> <<>>]
      [] OTHER             -> [ok |-> FALSE, value |-> <<>>]

\* body.x || dflt for an optional text field.
Field(body, name, dflt) ==
    IF name \in DOMAIN body /\ body[name] # "" THEN body[name] ELSE dflt

\* path.join(getAppDir(appID), fileName)
filePathOf(appID, fileName) == <<appID, fileName>>

\* fs.existsSync(filePath)
existsSync(filePath) == filePath \in DOMAIN files

\* Mutant: the file is created and nothing is written to it.
writeFileSyncTruncated(filePath, data) == (filePath :> "") @@ files

\* Mutant: the write is left out (or put off until after the save).
writeFileSyncLater(filePath, data) == files

\* fs.writeFileSync(filePath, data): the disk afterwards.
writeFileSync(filePath, data) == (filePath :> data) @@ files

\* fs.rmSync(filePath): the disk afterwards.
rmSync(filePath) == [q \in DOMAIN files \ {filePath} |-> files[q]]

\* getAppDir(appID): the directories afterwards (mkdir if absent).
getAppDir(appID) == dirs \cup {appID}

\* Mutant: the lookup without Status: ACTIVE.
getByIDAnyStatus(imageID) ==
    IF imageID \in DOMAIN images THEN images[imageID] ELSE NoImage

\* ImageModel.findOne({ ImageID, Status: ACTIVE }) of getByID; NoImage is null.
getByID(imageID) ==
    IF imageID \in DOMAIN images /\ images[imageID].Status = ACTIVE
    THEN images[imageID]
    ELSE NoImage

\* ImageModel.findOne({ ImageID })
findOne(imageID) == IF imageID \in DOMAIN images THEN images[imageID] ELSE NoImage

\* image.save(): the collection afterwards; createdAt is the time of the save.
save(image) ==
    (image.ImageID :> [image EXCEPT !.createdAt = Cardinality(DOMAIN images) + 1]) @@ images

\* The identifiers a client can name: those of saved records (upload and list
\* return them; a UUID is not guessed), and one that names nothing.
UnknownID == 0
IdInputs == DOMAIN images \cup {UnknownID}

\* Mutant: the identifier is taken from the number of records stored.
countPlusOne == Cardinality(DOMAIN images) + 1

\* crypto.randomUUID(): a value no earlier call has returned.
randomUUID == nextUUID

\* Mutant: the type is checked against the extension map, whose fallback
\* gives every type an extension.
hasExtension(mimetype) == getExtFromMime(mimetype) # ""

\* MIME_TYPES.includes(file.mimetype)
includes(mimetype) == mimetype \in MIME_TYPES

\* upload, from its entry to the await of image.save(): the result, the
\* record built and the disk, directories and UUID source afterwards.
upload(appID, uploadedBy, file, metadata) ==
    LET same == [image |-> NoImage, files |-> files, dirs |-> dirs, nextUUID |-> nextUUID]
    IN  IF file = NoFile
        THEN [res |-> BadRequestException("No file provided")] @@ same
        ELSE IF ~includes(file.mimetype)
        THEN [res |-> BadRequestException("Unsupported file type")] @@ same
        ELSE LET imageID == randomUUID
                 ext == IF extname(file.originalname) # "" THEN extname(file.originalname)
                        ELSE getExtFromMime(file.mimetype)
                 fileName == <<imageID, ext>>
                 filePath == filePathOf(appID, fileName)
             IN  [res |-> Pending,
                  image |-> [ImageID |-> imageID, AppID |-> appID, FileName |-> fileName,
                             OriginalFileName |-> file.originalname, MimeType |-> file.mimetype,
                             Size |-> file.size, Tags |-> metadata.tags,
                             Description |-> metadata.description, Alt |-> metadata.alt,
                             Status |-> ACTIVE, UploadedBy |-> uploadedBy, createdAt |-> 0],
                  files |-> writeFileSync(filePath, file.buffer),
                  dirs |-> getAppDir(appID),
                  nextUUID |-> nextUUID + 1]

\* FileInterceptor('file', { limits: { fileSize } }): the part is refused
\* when it is longer than the limit.
FileInterceptor(file) == file # NoFile /\ file.size > fileSize

\* POST /image/upload: the interceptor reads the body, the handler parses the
\* tags and calls upload, which runs to its await.
UploadOf(p, fileInputs, bodies) ==
    /\ proc[p].op = "upload" /\ proc[p].pc = "upload"
    /\ \E file \in fileInputs, body \in bodies :
         IF FileInterceptor(file)
         THEN /\ proc' = Finish(p, proc[p], FileTooLarge)
              /\ UNCHANGED <<files, dirs, nextUUID>>
         ELSE LET tags == Field(body, "tags", "")
                  parsed == IF tags # "" THEN JSONparse(tags) ELSE [ok |-> TRUE, value |-> <<>>]
                  u == upload(proc[p].app, proc[p].app, file,
                              [tags |-> parsed.value,
                               description |-> Field(body, "description", ""),
                               alt |-> Field(body, "alt", "")])
              IN  IF ~parsed.ok
                  THEN /\ proc' = Finish(p, proc[p], InternalError("SyntaxError"))
                       /\ UNCHANGED <<files, dirs, nextUUID>>
                  ELSE /\ u.res = Pending => nextUUID <= MaxImages
                       /\ files' = u.files /\ dirs' = u.dirs /\ nextUUID' = u.nextUUID
                       /\ proc' = IF u.res = Pending
                                  THEN [proc EXCEPT ![p].pc = "save", ![p].image = u.image,
                                                    ![p].id = u.image.ImageID]
                                  ELSE Finish(p, proc[p], u.res)
    /\ UNCHANGED <<keys, images>>

Upload(p) == UploadOf(p, FileInputs, UploadBodies)

\* await image.save(); return image
UploadSave(p) ==
    /\ proc[p].op = "upload" /\ proc[p].pc = "save"
    /\ images' = save(proc[p].image)
    /\ proc' = Finish(p, [proc[p] EXCEPT !.out = images'[proc[p].id]], Ok)
    /\ UNCHANGED <<keys, files, dirs, nextUUID>>

\* image.save() rejects (the store is down, a validation fails): upload
\* throws after the file is written.
UploadSaveFails(p) ==
    /\ proc[p].op = "upload" /\ proc[p].pc = "save"
    /\ proc' = Finish(p, proc[p], InternalError("save failed"))
    /\ UNCHANGED <<keys, images, files, dirs, nextUUID>>

\* What delete and getFilePath read of their local `image` after the await.
Local(image) == [AppID |-> image.AppID, FileName |-> image.FileName]

\* GET /image/:imageID
GetByID(p) ==
    /\ proc[p].op = "getByID" /\ proc[p].pc = "getByID"
    /\ \E imageID \in IdInputs :
         LET image == getByID(imageID)
             r == [proc[p] EXCEPT !.id = imageID]
         IN  proc' = IF image = NoImage
                    THEN Finish(p, r, NotFoundException("Image not found"))
                    ELSE Finish(p, [r EXCEPT !.out = image], Ok)
    /\ UNCHANGED <<keys, images, files, dirs, nextUUID>>

\* GET /image/:imageID/file, getFilePath: const image = await this.getByID(imageID)
GetFilePathFind(p) ==
    /\ proc[p].op = "getFile" /\ proc[p].pc = "getFile"
    /\ \E imageID \in IdInputs :
         LET image == getByID(imageID)
             r == [proc[p] EXCEPT !.id = imageID]
         IN  proc' = IF image = NoImage
                    THEN Finish(p, r, NotFoundException("Image not found"))
                    ELSE [proc EXCEPT ![p] = [r EXCEPT !.image = Local(image), !.pc = "existsSync"]]
    /\ UNCHANGED <<keys, images, files, dirs, nextUUID>>

\* getFilePath after its await: the path is joined (getAppDir makes the
\* directory) and the file must be there.
GetFilePathExists(p) ==
    /\ proc[p].op = "getFile" /\ proc[p].pc = "existsSync"
    /\ LET image == proc[p].image
           filePath == filePathOf(image.AppID, image.FileName)
       IN  /\ dirs' = getAppDir(image.AppID)
           /\ proc' = IF ~existsSync(filePath)
                      THEN Finish(p, proc[p], NotFoundException("Image file not found on disk"))
                      ELSE [proc EXCEPT ![p].pc = "getByID",
                                        ![p].out = [filePath |-> filePath, MimeType |-> "", data |-> ""]]
    /\ UNCHANGED <<keys, images, files, nextUUID>>

\* getFile: const image = await this.imageService.getByID(imageID)
GetFileGetByID(p) ==
    /\ proc[p].op = "getFile" /\ proc[p].pc = "getByID"
    /\ LET image == getByID(proc[p].id)
       IN  proc' = IF image = NoImage
                  THEN Finish(p, proc[p], NotFoundException("Image not found"))
                  ELSE [proc EXCEPT ![p].pc = "sendFile", ![p].out.MimeType = image.MimeType]
    /\ UNCHANGED <<keys, images, files, dirs, nextUUID>>

\* Mutant: the response is completed whether or not the file can be read.
SendFileBlind(p) ==
    /\ proc[p].op = "getFile" /\ proc[p].pc = "sendFile"
    /\ LET filePath == proc[p].out.filePath
       IN  proc' = Finish(p, [proc[p] EXCEPT !.out.data = IF existsSync(filePath)
                                                          THEN files[filePath] ELSE ""], Ok)
    /\ UNCHANGED <<keys, images, files, dirs, nextUUID>>

\* res.sendFile(filePath): the bytes on disk are sent; a file that is gone
\* by now ends the request with the transport's 404.
SendFile(p) ==
    /\ proc[p].op = "getFile" /\ proc[p].pc = "sendFile"
    /\ LET filePath == proc[p].out.filePath
       IN  proc' = IF existsSync(filePath)
                  THEN Finish(p, [proc[p] EXCEPT !.out.data = files[filePath]], Ok)
                  ELSE Finish(p, proc[p], [kind |-> "NotFound", msg |-> "ENOENT"])
    /\ UNCHANGED <<keys, images, files, dirs, nextUUID>>

\* The bodies PATCH /image/:imageID is sent with: only the supplied fields.
UpdateBodies ==
    { [description |-> "x"],
      [tags |-> <<>>, alt |-> "y"] }

\* Mutant: the three fields are all written, a missing one as its default.
setFieldsAll(image, updates) ==
    [image EXCEPT
        !.Tags = IF "tags" \in DOMAIN updates THEN updates.tags ELSE <<>>,
        !.Description = IF "description" \in DOMAIN updates THEN updates.description ELSE "",
        !.Alt = IF "alt" \in DOMAIN updates THEN updates.alt ELSE ""]

\* The $set of updateMetadata applied to a record: the supplied fields.
setFields(image, updates) ==
    [image EXCEPT
        !.Tags = IF "tags" \in DOMAIN updates THEN updates.tags ELSE @,
        !.Description = IF "description" \in DOMAIN updates THEN updates.description ELSE @,
        !.Alt = IF "alt" \in DOMAIN updates THEN updates.alt ELSE @]

\* Mutant: the lookup of updateMetadata is the one of its re-read, without
\* the status.
UpdateFindAnyStatus(p) ==
    /\ proc[p].op = "update" /\ proc[p].pc = "update"
    /\ \E imageID \in IdInputs :
         LET image == findOne(imageID)
             r == [proc[p] EXCEPT !.id = imageID]
         IN  proc' = IF image = NoImage
                    THEN Finish(p, r, NotFoundException("Image not found"))
                    ELSE [proc EXCEPT ![p] = [r EXCEPT !.image = Local(image), !.pc = "updateOne"]]
    /\ UNCHANGED <<keys, images, files, dirs, nextUUID>>

\* updateMetadata: const image = await this.getByID(imageID)
UpdateFind(p) ==
    /\ proc[p].op = "update" /\ proc[p].pc = "update"
    /\ \E imageID \in IdInputs :
         LET image == getByID(imageID)
             r == [proc[p] EXCEPT !.id = imageID]
         IN  proc' = IF image = NoImage
                    THEN Finish(p, r, NotFoundException("Image not found"))
                    ELSE [proc EXCEPT ![p] = [r EXCEPT !.image = Local(image), !.pc = "updateOne"]]
    /\ UNCHANGED <<keys, images, files, dirs, nextUUID>>

\* await ImageModel.updateOne({ ImageID: imageID }, { $set: setFields })
UpdateOneOf(p, bodies) ==
    /\ proc[p].op = "update" /\ proc[p].pc = "updateOne"
    /\ \E updates \in bodies :
         images' = IF proc[p].id \in DOMAIN images
                   THEN [images EXCEPT ![proc[p].id] = setFields(@, updates)]
                   ELSE images
    /\ proc' = [proc EXCEPT ![p].pc = "findOne"]
    /\ UNCHANGED <<keys, files, dirs, nextUUID>>

UpdateOne(p) == UpdateOneOf(p, UpdateBodies)

\* return await ImageModel.findOne({ ImageID: imageID })
UpdateRead(p) ==
    /\ proc[p].op = "update" /\ proc[p].pc = "findOne"
    /\ proc' = Finish(p, [proc[p] EXCEPT !.out = findOne(proc[p].id)], Ok)
    /\ UNCHANGED <<keys, images, files, dirs, nextUUID>>

\* delete: const image = await this.getByID(imageID)
DeleteFind(p) ==
    /\ proc[p].op = "delete" /\ proc[p].pc = "delete"
    /\ \E imageID \in IdInputs :
         LET image == getByID(imageID)
             r == [proc[p] EXCEPT !.id = imageID]
         IN  proc' = IF image = NoImage
                    THEN Finish(p, r, NotFoundException("Image not found"))
                    ELSE [proc EXCEPT ![p] = [r EXCEPT !.image = Local(image), !.pc = "updateOne"]]
    /\ UNCHANGED <<keys, images, files, dirs, nextUUID>>

\* Mutant: the status is not written.
DeleteKeepsStatus(p) ==
    /\ proc[p].op = "delete" /\ proc[p].pc = "updateOne"
    /\ proc' = [proc EXCEPT ![p].pc = "rmSync"]
    /\ UNCHANGED <<keys, images, files, dirs, nextUUID>>

\* await ImageModel.updateOne({ ImageID: imageID }, { $set: { Status: DELETED } })
DeleteUpdateOne(p) ==
    /\ proc[p].op = "delete" /\ proc[p].pc = "updateOne"
    /\ images' = IF proc[p].id \in DOMAIN images
                 THEN [images EXCEPT ![proc[p].id].Status = DELETED]
                 ELSE images
    /\ proc' = [proc EXCEPT ![p].pc = "rmSync"]
    /\ UNCHANGED <<keys, files, dirs, nextUUID>>

\* delete after its second await: the file is removed if it is there.
DeleteRm(p) ==
    /\ proc[p].op = "delete" /\ proc[p].pc = "rmSync"
    /\ LET image == proc[p].image
           filePath == filePathOf(image.AppID, image.FileName)
       IN  /\ dirs' = getAppDir(image.AppID)
           /\ files' = IF existsSync(filePath) THEN rmSync(filePath) ELSE files
    /\ proc' = Finish(p, proc[p], Ok)
    /\ UNCHANGED <<keys, images, nextUUID>>

\* The query strings GET /image is sent with, after parseInt and split(','):
\* only the supplied parameters are there (search is never supplied).
ListQueries ==
    { <<>>,
      [page |-> 2, limit |-> 1],
      [tags |-> <<"t">>],
      [limit |-> 200] }

Range(seq) == {seq[i] : i \in DOMAIN seq}
Min(a, b) == IF a < b THEN a ELSE b

\* Mutant: skip is page * limit.
pageWindowFromPage(options) ==
    LET page == IF options.page # 0 THEN options.page ELSE 1
        limit == Min(IF options.limit # 0 THEN options.limit ELSE 20, 100)
    IN  [skip |-> page * limit, limit |-> limit]

\* list: page = options.page || 1, limit = Math.min(options.limit || 20, 100),
\* skip = (page - 1) * limit.
pageWindow(options) ==
    LET page == IF options.page # 0 THEN options.page ELSE 1
        limit == Min(IF options.limit # 0 THEN options.limit ELSE 20, 100)
    IN  [skip |-> (page - 1) * limit, limit |-> limit]

\* Mutant: the filter without the status.
matchingAnyStatus(appID, tags) ==
    {id \in DOMAIN images :
        /\ images[id].AppID = appID
        /\ Len(tags) > 0 => Range(images[id].Tags) \cap Range(tags) # {}}

\* The filter of list: { AppID, Status: ACTIVE, Tags: { $in: tags } }.
matching(appID, tags) ==
    {id \in DOMAIN images :
        /\ images[id].AppID = appID
        /\ images[id].Status = ACTIVE
        /\ Len(tags) > 0 => Range(images[id].Tags) \cap Range(tags) # {}}

\* .sort({ createdAt: -1 }): the records of ids, newest first.
RECURSIVE sortNewestFirst(_)
sortNewestFirst(ids) ==
    IF ids = {} THEN <<>>
    ELSE LET newest == CHOOSE i \in ids : \A j \in ids : images[j].createdAt <= images[i].createdAt
         IN  <<images[newest]>> \o sortNewestFirst(ids \ {newest})

\* .skip(skip).limit(limit)
skipLimit(seq, skip, limit) ==
    SubSeq(seq, skip + 1, Min(Len(seq), skip + limit))

\* GET /image: the handler builds the options, list builds the filter and
\* issues find and countDocuments together.
List(p) ==
    /\ proc[p].op = "list" /\ proc[p].pc = "list"
    /\ \E query \in ListQueries :
         LET options == [page |-> IF "page" \in DOMAIN query THEN query.page ELSE 1,
                         limit |-> IF "limit" \in DOMAIN query THEN query.limit ELSE 20,
                         tags |-> IF "tags" \in DOMAIN query THEN query.tags ELSE <<>>]
             w == pageWindow(options)
         IN  proc' = [proc EXCEPT ![p].pc = "Promise.all",
                        ![p].opts = [skip |-> w.skip, limit |-> w.limit,
                                     tags |-> options.tags, found |-> FALSE, counted |-> FALSE],
                        ![p].out = [images |-> <<>>, total |-> 0]]
    /\ UNCHANGED <<keys, images, files, dirs, nextUUID>>

ListStep(p, r) ==
    IF r.opts.found /\ r.opts.counted THEN Finish(p, r, Ok) ELSE [proc EXCEPT ![p] = r]

\* ImageModel.find(filter).sort({ createdAt: -1 }).skip(skip).limit(limit)
ListFind(p) ==
    /\ proc[p].op = "list" /\ proc[p].pc = "Promise.all" /\ ~proc[p].opts.found
    /\ LET o == proc[p].opts
           found == skipLimit(sortNewestFirst(matching(proc[p].app, o.tags)), o.skip, o.limit)
       IN  proc' = ListStep(p, [proc[p] EXCEPT !.out.images = found, !.opts.found = TRUE])
    /\ UNCHANGED <<keys, images, files, dirs, nextUUID>>

\* ImageModel.countDocuments(filter)
ListCount(p) ==
    /\ proc[p].op = "list" /\ proc[p].pc = "Promise.all" /\ ~proc[p].opts.counted
    /\ LET total == Cardinality(matching(proc[p].app, proc[p].opts.tags))
       IN  proc' = ListStep(p, [proc[p] EXCEPT !.out.total = total, !.opts.counted = TRUE])
    /\ UNCHANGED <<keys, images, files, dirs, nextUUID>>

\* ------------------------------------------- migrate-primordia-images.ts
\* The files of the source directory with where the Primordia database
\* refers to them: name, bytes, size, source and the tags migrateFile gives.
MigrationInputs ==
    { [filename |-> <<"Generic_5", ".png">>, data |-> "m", size |-> 1, source |-> "orphan",
       tags |-> <<"orphan", "generic">>],
      [filename |-> <<"p", ".JPG">>, data |-> "n", size |-> 1, source |-> "player",
       tags |-> <<"player-avatar", "player:7">>] }

toLowerCase(ext) == IF ext = ".JPG" THEN ".jpg" ELSE ext

getMimeType(filename) ==
    LET ext == toLowerCase(extname(filename))
    IN  CASE ext = ".png"  -> "image/png"
          [] ext = ".jpg"  -> "image/jpeg"
          [] ext = ".jpeg" -> "image/jpeg"
          [] ext = ".webp" -> "image/webp"
          [] ext = ".gif"  -> "image/gif"
          [] ext = ".svg"  -> "image/svg+xml"
          [] OTHER         -> "application/octet-stream"

\* fs.copyFileSync(sourcePath, destPath): the disk afterwards.
copyFileSync(data, destPath) == (destPath :> data) @@ files

\* main up to its first await: the arguments are read and the tenant
\* directory is made.
MigrateStart(p) ==
    /\ proc[p].op = "idle"
    /\ nextUUID <= MaxImages
    /\ \A q \in Procs : proc[q].op # "migrate"
    /\ \E appName \in AppNames :
         /\ dirs' = dirs \cup {appName}
         /\ proc' = [proc EXCEPT ![p] = [Idle EXCEPT !.op = "migrate", !.pc = "migrateFile",
                                          !.app = appName]]
    /\ UNCHANGED <<keys, images, files, nextUUID>>

\* migrateFile up to its await: the file is copied under a new UUID and the
\* record is built.
MigrateCopyOf(p, inputs) ==
    /\ proc[p].op = "migrate" /\ proc[p].pc = "migrateFile"
    /\ nextUUID <= MaxImages
    /\ \E f \in inputs :
         LET imageID == randomUUID
             newFilename == <<imageID, extname(f.filename)>>
             destPath == filePathOf(proc[p].app, newFilename)
         IN  /\ files' = copyFileSync(f.data, destPath)
             /\ nextUUID' = nextUUID + 1
             /\ proc' = [proc EXCEPT ![p].pc = "save", ![p].id = imageID,
                            ![p].image = [ImageID |-> imageID, AppID |-> proc[p].app,
                                FileName |-> newFilename, OriginalFileName |-> f.filename,
                                MimeType |-> getMimeType(f.filename), Size |-> f.size,
                                Tags |-> f.tags, Description |-> "", Alt |-> "",
                                Status |-> ACTIVE, UploadedBy |-> "migration", createdAt |-> 0]]
    /\ UNCHANGED <<keys, images, dirs>>

MigrateCopy(p) == MigrateCopyOf(p, MigrationInputs)

\* await image.save(), and on to the next file.
MigrateSave(p) ==
    /\ proc[p].op = "migrate" /\ proc[p].pc = "save"
    /\ images' = save(proc[p].image)
    /\ proc' = [proc EXCEPT ![p].pc = "migrateFile", ![p].image = NoImage]
    /\ UNCHANGED <<keys, files, dirs, nextUUID>>

\* image.save() rejects: main().catch logs and the run exits.
MigrateSaveFails(p) ==
    /\ proc[p].op = "migrate" /\ proc[p].pc = "save"
    /\ proc' = Finish(p, proc[p], [kind |-> "exit(1)", msg |-> "Migration failed"])
    /\ UNCHANGED <<keys, images, files, dirs, nextUUID>>

\* No file is left: the references are updated and the run exits.
MigrateDone(p) ==
    /\ proc[p].op = "migrate" /\ proc[p].pc = "migrateFile"
    /\ proc' = Finish(p, proc[p], Ok)
    /\ UNCHANGED <<keys, images, files, dirs, nextUUID>>

\* ------------------------------------------------------------------- Next
Next ==
    \/ \E p \in Procs : CreateKeyStart(p)
    \/ \E p \in Procs : CreateKeyFind(p)
    \/ \E p \in Procs : CreateKeySave(p)
    \/ UpdateKey
    \/ RevokeKey
    \/ \E p \in Procs : Request(p)
    \/ \E p \in Procs : Upload(p)
    \/ \E p \in Procs : UploadSave(p)
    \/ \E p \in Procs : UploadSaveFails(p)
    \/ \E p \in Procs : GetByID(p)
    \/ \E p \in Procs : GetFilePathFind(p)
    \/ \E p \in Procs : GetFilePathExists(p)
    \/ \E p \in Procs : GetFileGetByID(p)
    \/ \E p \in Procs : SendFile(p)
    \/ \E p \in Procs : List(p)
    \/ \E p \in Procs : ListFind(p)
    \/ \E p \in Procs : ListCount(p)
    \/ \E p \in Procs : UpdateFind(p)
    \/ \E p \in Procs : UpdateOne(p)
    \/ \E p \in Procs : UpdateRead(p)
    \/ \E p \in Procs : DeleteFind(p)
    \/ \E p \in Procs : DeleteUpdateOne(p)
    \/ \E p \in Procs : DeleteRm(p)
    \/ \E p \in Procs : MigrateStart(p)
    \/ \E p \in Procs : MigrateCopy(p)
    \/ \E p \in Procs : MigrateSave(p)
    \/ \E p \in Procs : MigrateSaveFails(p)
    \/ \E p \in Procs : MigrateDone(p)
    \/ \E p \in Procs : Return(p)

Spec == Init /\ [][Next]_vars

\* ------------------------------------------------ the key store on its own
\* The key scripts run against a service whose clients have not stored an
\* image yet: every route gets requests, and the uploads that arrive carry
\* no acceptable file.
RefusedFiles == {f \in FileInputs : f = NoFile \/ f.mimetype \notin MIME_TYPES}

NextKeys ==
    \/ \E p \in Procs : CreateKeyStart(p)
    \/ \E p \in Procs : CreateKeyFind(p)
    \/ \E p \in Procs : CreateKeySave(p)
    \/ UpdateKey
    \/ RevokeKey
    \/ \E p \in Procs : RequestFor(p, {"upload", "getByID", "delete"})
    \/ \E p \in Procs : UploadOf(p, RefusedFiles, UploadBodies)
    \/ \E p \in Procs : GetByID(p)
    \/ \E p \in Procs : DeleteFind(p)
    \/ \E p \in Procs : Return(p)

SpecKeys == Init /\ [][NextKeys]_vars

\* ------------------------------------------- the store with keys in place
\* The service after `create-api-key a read write delete` and
\* `create-api-key b` (read and write by default).
Provisioned ==
    /\ keys = <<[AppName |-> "a", Key |-> hashKey(rawKeyOf(1)),
                 Permissions |-> OrAll({"read", "write", "delete"}), Active |-> TRUE],
                [AppName |-> "b", Key |-> hashKey(rawKeyOf(2)),
                 Permissions |-> BitOr(READ, WRITE), Active |-> TRUE]>>
    /\ images = <<>>
    /\ files = <<>>
    /\ dirs = {}
    /\ nextUUID = 1
    /\ proc = [p \in Procs |-> Idle]

\* Uploads without tags (none, or a string that is no JSON).
PlainBodies == {b \in UploadBodies : "tags" \in DOMAIN b => ~JSONparse(b.tags).ok}

\* Writers only: uploads, updates of the description, deletes and a
\* migration run over a directory of orphan files.
NextWrite ==
    \/ \E p \in Procs : RequestFor(p, {"upload", "update", "delete"})
    \/ \E p \in Procs : UploadOf(p, FileInputs, PlainBodies)
    \/ \E p \in Procs : UploadSave(p)
    \/ \E p \in Procs : UploadSaveFails(p)
    \/ \E p \in Procs : UpdateFind(p)
    \/ \E p \in Procs : UpdateOneOf(p, {b \in UpdateBodies : DOMAIN b = {"description"}})
    \/ \E p \in Procs : UpdateRead(p)
    \/ \E p \in Procs : DeleteFind(p)
    \/ \E p \in Procs : DeleteUpdateOne(p)
    \/ \E p \in Procs : DeleteRm(p)
    \/ \E p \in Procs : MigrateStart(p)
    \/ \E p \in Procs : MigrateCopyOf(p, {f \in MigrationInputs : f.source = "orphan"})
    \/ \E p \in Procs : MigrateSave(p)
    \/ \E p \in Procs : MigrateSaveFails(p)
    \/ \E p \in Procs : MigrateDone(p)
    \/ \E p \in Procs : Return(p)

SpecWrite == Provisioned /\ [][NextWrite]_vars

\* Uploads and deletes with the readers: get-metadata and get-file.
NextRead ==
    \/ \E p \in Procs : RequestFor(p, {"upload", "getByID", "getFile", "delete"})
    \/ \E p \in Procs : UploadOf(p, FileInputs, PlainBodies)
    \/ \E p \in Procs : UploadSave(p)
    \/ \E p \in Procs : UploadSaveFails(p)
    \/ \E p \in Procs : GetByID(p)
    \/ \E p \in Procs : GetFilePathFind(p)
    \/ \E p \in Procs : GetFilePathExists(p)
    \/ \E p \in Procs : GetFileGetByID(p)
    \/ \E p \in Procs : SendFile(p)
    \/ \E p \in Procs : DeleteFind(p)
    \/ \E p \in Procs : DeleteUpdateOne(p)
    \/ \E p \in Procs : DeleteRm(p)
    \/ \E p \in Procs : Return(p)

SpecRead == Provisioned /\ [][NextRead]_vars

\* Uploads of one-byte files, with tags or without, beside get-metadata,
\* update-metadata and delete.
SmallFiles == {f \in FileInputs : f # NoFile /\ f.size = 1}
ParsedBodies == {b \in UploadBodies : "tags" \in DOMAIN b => JSONparse(b.tags).ok}

NextUpdate ==
    \/ \E p \in Procs : RequestFor(p, {"upload", "getByID", "update", "delete"})
    \/ \E p \in Procs : UploadOf(p, SmallFiles, ParsedBodies)
    \/ \E p \in Procs : UploadSave(p)
    \/ \E p \in Procs : GetByID(p)
    \/ \E p \in Procs : UpdateFind(p)
    \/ \E p \in Procs : UpdateOne(p)
    \/ \E p \in Procs : UpdateRead(p)
    \/ \E p \in Procs : DeleteFind(p)
    \/ \E p \in Procs : DeleteUpdateOne(p)
    \/ \E p \in Procs : DeleteRm(p)
    \/ \E p \in Procs : Return(p)

SpecUpdate == Provisioned /\ [][NextUpdate]_vars

\* Uploads and deletes with list requests.
NextList ==
    \/ \E p \in Procs : RequestFor(p, {"upload", "list", "delete"})
    \/ \E p \in Procs : UploadOf(p, SmallFiles, ParsedBodies)
    \/ \E p \in Procs : UploadSave(p)
    \/ \E p \in Procs : DeleteFind(p)
    \/ \E p \in Procs : DeleteUpdateOne(p)
    \/ \E p \in Procs : DeleteRm(p)
    \/ \E p \in Procs : List(p)
    \/ \E p \in Procs : ListFind(p)
    \/ \E p \in Procs : ListCount(p)
    \/ \E p \in Procs : Return(p)

SpecList == Provisioned /\ [][NextList]_vars

\* ================================================================ claims
PathOf(id) == filePathOf(images[id].AppID, images[id].FileName)

\* C1: in every reachable state, every record whose status is active has
\* its file on disk at {root}/{AppID}/{FileName}.
C1_ActiveRecordHasFile ==
    \A id \in DOMAIN images :
        images[id].Status = ACTIVE => PathOf(id) \in DOMAIN files

\* C1 witness: an active record with its file, beside an upload whose save
\* failed after the write and left its file with no record.
C1_Witness ==
    /\ \E id \in DOMAIN images : images[id].Status = ACTIVE /\ PathOf(id) \in DOMAIN files
    /\ \E p \in Procs :
         /\ proc[p].op = "upload" /\ proc[p].res.msg = "save failed"
         /\ proc[p].id \notin DOMAIN images
         /\ filePathOf(proc[p].image.AppID, proc[p].image.FileName) \in DOMAIN files

\* C2 (as claimed): for every tenant name at most one key record is active.
C2_OneActiveKeyPerTenant ==
    \A i, j \in DOMAIN keys :
        (keys[i].Active /\ keys[j].Active /\ keys[i].AppName = keys[j].AppName) => i = j

\* The permission table of the transport surface.
TablePermission(operation) ==
    CASE operation \in {"upload", "update"} -> WRITE
      [] operation \in {"getByID", "list"}  -> READ
      [] operation = "delete"               -> DELETE

\* C3: for every active key and each of upload, update-metadata,
\* get-metadata, list and delete, the guard lets the request through exactly
\* when the key's mask has the bit the table gives the operation; so a
\* read-only key is refused on upload, and a write+read key passes on upload
\* and get-metadata and is refused on delete.
C3_PermissionBitChecked ==
    \A i \in DOMAIN keys :
        keys[i].Active =>
            /\ \A operation \in {"upload", "update", "getByID", "list", "delete"} :
                 canActivate(rawKeyOf(i), operation).pass
                    <=> BitAnd(keys[i].Permissions, TablePermission(operation)) # 0
            /\ keys[i].Permissions = READ => ~canActivate(rawKeyOf(i), "upload").pass
            /\ keys[i].Permissions = READ + WRITE =>
                 /\ canActivate(rawKeyOf(i), "upload").pass
                 /\ canActivate(rawKeyOf(i), "getByID").pass
                 /\ ~canActivate(rawKeyOf(i), "delete").pass

Refused(p, operation, mask) ==
    /\ proc[p].op = operation /\ proc[p].pc = "done"
    /\ proc[p].res.msg = "Insufficient permissions"
    /\ \E i \in DOMAIN keys :
         proc[p].hdr = rawKeyOf(i) /\ keys[i].Active /\ keys[i].Permissions = mask

\* C3 witness: an upload refused for a read-only key, and a delete refused
\* for a write+read key.
C3_Witness ==
    \E p, q \in Procs : Refused(p, "upload", READ) /\ Refused(q, "delete", READ + WRITE)

\* C4 (as claimed): the guard fails with the kind Forbidden exactly when the
\* required permission is non-zero and the AND with the key's mask is zero,
\* and does not fail otherwise.
C4_ForbiddenKind ==
    \A i \in DOMAIN keys, handler \in HttpOps :
        keys[i].Active =>
            LET required == RequiredPermission(handler)
                g == canActivate(rawKeyOf(i), handler)
            IN  IF required # 0 /\ BitAnd(keys[i].Permissions, required) = 0
                THEN ~g.pass /\ g.res.kind = "Forbidden"
                ELSE g.pass

\* The key store has no active record whose hash is the digest of apiKey.
NoActiveRecordFor(apiKey) ==
    \A i \in DOMAIN keys : keys[i].Key = hashKey(apiKey) => ~keys[i].Active

\* C5: a request with no credential, or with one whose digest is the hash of
\* no record, or of a record that is not active (a revoked key), ends
\* Unauthenticated at the guard: it never reaches a handler, and neither a
\* record nor a file changes for it.
C5_RevokedKeyRejected ==
    /\ [](\A apiKey \in Headers, handler \in HttpOps :
            (apiKey = NoHeader \/ NoActiveRecordFor(apiKey)) =>
                /\ ~canActivate(apiKey, handler).pass
                /\ canActivate(apiKey, handler).res.kind = "Unauthenticated")
    /\ [][\A p \in Procs :
            /\ (proc[p].op = "idle" /\ proc'[p].op \in HttpOps
                 /\ (proc'[p].hdr = NoHeader \/ NoActiveRecordFor(proc'[p].hdr))) =>
                    /\ proc'[p].pc = "done" /\ proc'[p].res.kind = "Unauthenticated"
                    /\ images' = images /\ files' = files
            /\ (proc[p].pc = "done" /\ proc[p].res.kind = "Unauthenticated") =>
                    proc'[p] \in {proc[p], Idle}]_vars

\* C5 witness: a request presenting the secret of a revoked key has been
\* rejected.
C5_Witness ==
    \E p \in Procs, i \in DOMAIN keys :
        /\ proc[p].op \in HttpOps /\ proc[p].pc = "done"
        /\ proc[p].hdr = rawKeyOf(i) /\ ~keys[i].Active
        /\ proc[p].res = UnauthorizedException("Invalid or inactive API key")

\* C6 (as claimed): once an image is active, a get-file request that carries
\* no X-API-Key header is let through to be served, while every other image
\* operation rejects a request without the header.
C6_FileNeedsNoCredential ==
    (\E id \in DOMAIN images : images[id].Status = ACTIVE /\ PathOf(id) \in DOMAIN files) =>
        /\ ~Guarded("getFile") \/ canActivate(NoHeader, "getFile").pass
        /\ \A handler \in HttpOps \ {"getFile"} :
             Guarded(handler) /\ ~canActivate(NoHeader, handler).pass

\* C7: once a delete of an active image has completed, the record stays in
\* deleted status, and a get-metadata or a delete that looks the identifier
\* up from then on ends NotFound and changes no record and no file.
C7_DeleteThenNotFound ==
    /\ [](\A p \in Procs :
            (proc[p].op = "delete" /\ proc[p].pc = "done" /\ proc[p].res = Ok) =>
                images[proc[p].id].Status = DELETED)
    /\ [][\A q \in Procs :
            (/\ proc[q].op \in {"getByID", "delete"} /\ proc[q].pc = proc[q].op
             /\ proc'[q].pc # proc[q].pc
             /\ proc'[q].id \in DOMAIN images
             /\ images[proc'[q].id].Status = DELETED) =>
                /\ proc'[q].pc = "done" /\ proc'[q].res.kind = "NotFound"
                /\ images' = images /\ files' = files /\ dirs' = dirs]_vars

\* C7 witness: a delete has completed and a second delete of the same
\* identifier has ended NotFound.
C7_Witness ==
    \E p, q \in Procs :
        /\ p # q /\ proc[p].id = proc[q].id /\ proc[p].id \in DOMAIN images
        /\ proc[p].op = "delete" /\ proc[p].pc = "done" /\ proc[p].res = Ok
        /\ proc[q].op = "delete" /\ proc[q].pc = "done"
        /\ proc[q].res = NotFoundException("Image not found")

\* C8: a getFilePath that starts (makes its lookup) when the record's status
\* is deleted ends NotFound, whether or not the file is still on disk.
C8_DeletedNeverResolves ==
    [][\A p \in Procs :
        (/\ proc[p].op = "getFile" /\ proc[p].pc = "getFile"
         /\ proc'[p].pc # "getFile"
         /\ proc'[p].id \in DOMAIN images
         /\ images[proc'[p].id].Status = DELETED) =>
            /\ proc'[p].pc = "done" /\ proc'[p].res.kind = "NotFound"
            /\ proc'[p].out = NoOut]_vars

\* C8 witness: the status is deleted, the file is still on disk, and a
\* getFilePath for the identifier has ended NotFound at its lookup.
C8_Witness ==
    \E p \in Procs :
        /\ proc[p].op = "getFile" /\ proc[p].pc = "done"
        /\ proc[p].res = NotFoundException("Image not found") /\ proc[p].out = NoOut
        /\ proc[p].id \in DOMAIN images
        /\ images[proc[p].id].Status = DELETED
        /\ PathOf(proc[p].id) \in DOMAIN files

\* The declared types uploads are tried with.
MimeInputs == MIME_TYPES \cup {"text/plain", "application/pdf", "image/bmp", "image/PNG", ""}
AllowList == {"image/png", "image/jpeg", "image/webp", "image/gif", "image/svg+xml"}
PresentFiles == {[f EXCEPT !.mimetype = m] : f \in FileInputs \ {NoFile}, m \in MimeInputs}

\* C9: an upload whose declared MIME type is outside the allow-list fails
\* with InvalidInput, and the files on disk and the records are the same
\* after the call as before it.
C9_BadMimeRejected ==
    /\ [](\A appID \in AppNames, file \in PresentFiles :
            file.mimetype \notin AllowList =>
                LET u == upload(appID, appID, file, [tags |-> <<>>, description |-> "", alt |-> ""])
                IN  /\ u.res = BadRequestException("Unsupported file type")
                    /\ u.res.kind = "InvalidInput"
                    /\ u.files = files /\ u.image = NoImage /\ u.nextUUID = nextUUID)
    /\ [][\A p \in Procs :
            (proc[p].op = "upload" /\ proc[p].pc = "upload"
             /\ proc'[p].res.msg = "Unsupported file type") =>
                /\ proc'[p].pc = "done"
                /\ images' = images /\ files' = files]_vars

\* C9 witness: an upload has been refused for its type while the store
\* holds a record and a file.
C9_Witness ==
    /\ DOMAIN images # {} /\ DOMAIN files # {}
    /\ \E p \in Procs :
         /\ proc[p].op = "upload" /\ proc[p].pc = "done"
         /\ proc[p].res = BadRequestException("Unsupported file type")

\* C10 (as claimed): an upload whose content is absent, empty or over the
\* cap is rejected with InvalidInput and persists nothing: the uploads that
\* get as far as writing a file carry between 1 and 10 MiB, and the
\* refusals for a missing or too large file are InvalidInput.
C10_EmptyOrOversizeRejected ==
    /\ \A p \in Procs :
         (proc[p].op = "upload" /\ proc[p].image # NoImage) =>
            proc[p].image.Size > 0 /\ proc[p].image.Size <= 10 * 1024 * 1024
    /\ \A id \in DOMAIN images :
         images[id].UploadedBy # "migration" =>
            images[id].Size > 0 /\ images[id].Size <= 10 * 1024 * 1024
    /\ \A p \in Procs :
         proc[p].res.msg \in {"No file provided", "File too large"} =>
            proc[p].res.kind = "InvalidInput"

\* C11: a create (upload or migration) never takes the identifier of a record
\* that exists, deleted or not, nor that of another create in flight; its
\* file is a file of no other record; and no create replaces a record or
\* the bytes of a file that is there: two concurrent uploads of one tenant
\* end as two records and two files.
C11_IdentifierNeverReused ==
    /\ [](\A p \in Procs :
            (proc[p].op \in {"upload", "migrate"} /\ proc[p].pc = "save") =>
                /\ proc[p].image.ImageID \notin DOMAIN images
                /\ \A id \in DOMAIN images :
                     PathOf(id) # filePathOf(proc[p].image.AppID, proc[p].image.FileName)
                /\ \A q \in Procs \ {p} :
                     (proc[q].op \in {"upload", "migrate"} /\ proc[q].pc = "save") =>
                        /\ proc[q].image.ImageID # proc[p].image.ImageID
                        /\ proc[q].image.FileName # proc[p].image.FileName)
    /\ [](\A id \in DOMAIN images :
            /\ images[id].ImageID = id
            /\ \A other \in DOMAIN images \ {id} : PathOf(other) # PathOf(id))
    /\ [][/\ \A id \in DOMAIN images :
               /\ id \in DOMAIN images'
               /\ images'[id].createdAt = images[id].createdAt
               /\ images'[id].FileName = images[id].FileName
               /\ images'[id].AppID = images[id].AppID
           /\ \A path \in DOMAIN files :
               path \in DOMAIN files' => files'[path] = files[path]]_vars

\* C11 witness: two uploads of one tenant that were in flight together have
\* both returned, with two identifiers, two records and two files.
C11_Witness ==
    \E p, q \in Procs :
        /\ p # q
        /\ proc[p].op = "upload" /\ proc[p].pc = "done" /\ proc[p].res = Ok
        /\ proc[q].op = "upload" /\ proc[q].pc = "done" /\ proc[q].res = Ok
        /\ proc[p].app = proc[q].app
        /\ proc[p].out.ImageID # proc[q].out.ImageID
        /\ {proc[p].out.ImageID, proc[q].out.ImageID} \subseteq DOMAIN images
        /\ PathOf(proc[p].out.ImageID) \in DOMAIN files
        /\ PathOf(proc[q].out.ImageID) \in DOMAIN files
        /\ PathOf(proc[p].out.ImageID) # PathOf(proc[q].out.ImageID)

\* The bytes an uploaded record was created from: those of the file part
\* with the record's original name, type and size.
ContentOf(image) ==
    (CHOOSE f \in FileInputs \ {NoFile} :
        /\ f.originalname = image.OriginalFileName
        /\ f.mimetype = image.MimeType
        /\ f.size = image.Size).buffer

AcceptedFiles == {f \in FileInputs \ {NoFile} : f.mimetype \in AllowList}

\* C12: upload(tenant, C, an allowed type) writes C to
\* {root}/{tenant}/{FileName of its record}; as long as the record is active
\* (no delete has intervened) that file holds C, each step of a get-file for
\* the identifier goes through, getFilePath resolves to that path, and the
\* bytes served are C.
C12_RoundTrip ==
    /\ [](\A appID \in AppNames, file \in AcceptedFiles :
            LET u == upload(appID, appID, file, [tags |-> <<>>, description |-> "", alt |-> ""])
            IN  /\ u.res = Pending /\ u.image.AppID = appID
                /\ u.files[<<appID, u.image.FileName>>] = file.buffer)
    /\ [](\A id \in DOMAIN images :
            images[id].Status = ACTIVE =>
                /\ <<images[id].AppID, images[id].FileName>> \in DOMAIN files
                /\ files[<<images[id].AppID, images[id].FileName>>] = ContentOf(images[id]))
    /\ [](\A p \in Procs :
            (proc[p].op = "getFile" /\ proc[p].pc = "done" /\ proc[p].res = Ok) =>
                /\ proc[p].out.filePath = <<images[proc[p].id].AppID, images[proc[p].id].FileName>>
                /\ proc[p].out.data = ContentOf(images[proc[p].id]))
    /\ [][\A p \in Procs :
            (/\ proc[p].op = "getFile" /\ proc'[p].pc # proc[p].pc /\ proc[p].pc # "done"
             /\ proc'[p].id \in DOMAIN images
             /\ images[proc'[p].id].Status = ACTIVE) =>
                /\ proc'[p].res \in {Pending, Ok}
                /\ proc[p].pc = "existsSync" =>
                     proc'[p].out.filePath
                        = <<images[proc[p].id].AppID, images[proc[p].id].FileName>>
                /\ proc[p].pc = "sendFile" =>
                     proc'[p].res = Ok /\ proc'[p].out.data = ContentOf(images[proc[p].id])]_vars

\* C12 witness: a get-file of an uploaded image that is still active has
\* served the bytes x the upload carried.
C12_Witness ==
    \E p \in Procs :
        /\ proc[p].op = "getFile" /\ proc[p].pc = "done" /\ proc[p].res = Ok
        /\ images[proc[p].id].Status = ACTIVE
        /\ images[proc[p].id].Size = 1
        /\ proc[p].out.data = "x"
        /\ proc[p].out.filePath = PathOf(proc[p].id)

\* The metadata of a record after an update carrying the fields of body.
Updated(old, body) ==
    [Tags |-> IF "tags" \in DOMAIN body THEN body.tags ELSE old.Tags,
     Description |-> IF "description" \in DOMAIN body THEN body.description ELSE old.Description,
     Alt |-> IF "alt" \in DOMAIN body THEN body.alt ELSE old.Alt]

MetadataOf(image) == [Tags |-> image.Tags, Description |-> image.Description, Alt |-> image.Alt]

\* The record without its three metadata fields.
RestOf(image) == [f \in DOMAIN image \ {"Tags", "Description", "Alt"} |-> image[f]]

\* C13: the write of updateMetadata sets exactly the fields its body
\* carries on the target record and leaves the record's other metadata
\* fields, its status and every other field, its file and every other
\* record as they were; the other steps of an update write nothing; an
\* update carrying only a description leaves tags and alt text alone.
C13_UpdateChangesOnlySupplied ==
    /\ [](\A id \in DOMAIN images :
            LET new == setFields(images[id], [description |-> "x"])
            IN  /\ new.Description = "x"
                /\ new.Tags = images[id].Tags /\ new.Alt = images[id].Alt)
    /\ [][\A p \in Procs :
            (proc[p].op = "update" /\ proc'[p].pc # proc[p].pc /\ proc[p].pc # "done") =>
                /\ files' = files
                /\ DOMAIN images' = DOMAIN images
                /\ \A id \in DOMAIN images : id # proc'[p].id => images'[id] = images[id]
                /\ proc[p].pc # "updateOne" => images' = images
                /\ (proc[p].pc = "updateOne" /\ proc[p].id \in DOMAIN images) =>
                     /\ RestOf(images'[proc[p].id]) = RestOf(images[proc[p].id])
                     /\ \E body \in UpdateBodies :
                          MetadataOf(images'[proc[p].id]) = Updated(images[proc[p].id], body)]_vars

\* C13 witness: an update that carried only a description has returned a
\* record that has the new description and still has the tag it was
\* uploaded with.
C13_Witness ==
    \E p \in Procs :
        /\ proc[p].op = "update" /\ proc[p].pc = "done" /\ proc[p].res = Ok
        /\ proc[p].out.Description = "x"
        /\ proc[p].out.Tags = <<"t">>
        /\ images[proc[p].id] = proc[p].out

\* An update makes its lookup in this step, for a record in deleted status.
UpdateLooksUpDeleted(p) ==
    /\ proc[p].op = "update" /\ proc[p].pc = "update"
    /\ proc'[p].pc # "update"
    /\ proc'[p].id \in DOMAIN images
    /\ images[proc'[p].id].Status = DELETED

\* C14 (as claimed): updateMetadata called with the identifier of a record
\* in deleted status does not fail with NotFound: it goes on to apply the
\* supplied fields and return the refreshed record.
C14_UpdateAppliesToDeleted ==
    [][\A p \in Procs :
        UpdateLooksUpDeleted(p) =>
            proc'[p].pc = "updateOne" /\ proc'[p].res.kind # "NotFound"]_vars

\* C14 (amended): updateMetadata called with the identifier of a record in
\* deleted status fails with NotFound at its lookup, returns nothing and
\* changes no record and no file.
C14_UpdateOfDeletedNotFound ==
    [][\A p \in Procs :
        UpdateLooksUpDeleted(p) =>
            /\ proc'[p].pc = "done"
            /\ proc'[p].res = NotFoundException("Image not found")
            /\ proc'[p].out = NoOut
            /\ images' = images /\ files' = files]_vars

\* C14 witness: an update of a deleted record has ended NotFound.
C14_Witness ==
    \E p \in Procs :
        /\ proc[p].op = "update" /\ proc[p].pc = "done"
        /\ proc[p].res = NotFoundException("Image not found")
        /\ proc[p].id \in DOMAIN images
        /\ images[proc[p].id].Status = DELETED
        /\ \A q \in Procs : proc[q].op # "delete"

\* C18 (as claimed): a by-identifier request authenticated as one tenant
\* goes past its lookup, and succeeds, only on a record of that tenant:
\* get-metadata, update-metadata and delete never return, modify or delete a
\* record (or file) whose AppID is another tenant.
C18_TenantIsolation ==
    \A p \in Procs :
        /\ (proc[p].op \in {"update", "delete"} /\ proc[p].image # NoImage) =>
                proc[p].image.AppID = proc[p].app
        /\ (proc[p].op \in {"getByID", "update", "delete"} /\ proc[p].res = Ok
             /\ proc[p].id \in DOMAIN images) =>
                images[proc[p].id].AppID = proc[p].app

\* C19 (as claimed): the metadata fields of a record do not change once its
\* status is deleted, and no update returns a record whose status is
\* deleted, whatever the interleaving of updateMetadata and delete.
C19_NoUpdateAfterDelete ==
    /\ [][\A id \in DOMAIN images :
            images[id].Status = DELETED =>
                /\ images'[id].Tags = images[id].Tags
                /\ images'[id].Description = images[id].Description
                /\ images'[id].Alt = images[id].Alt]_vars
    /\ [](\A p \in Procs :
            (proc[p].op = "update" /\ proc[p].pc = "done" /\ proc[p].res = Ok) =>
                proc[p].out.Status # DELETED)

\* The records list is to report for a tenant and a tag filter.
Listable(appID, tags) ==
    {id \in DOMAIN images :
        /\ images[id].AppID = appID
        /\ images[id].Status = ACTIVE
        /\ tags # <<>> => \E i \in DOMAIN tags, j \in DOMAIN images[id].Tags :
                               images[id].Tags[j] = tags[i]}

\* C15: every record the find of list returns is, when the query runs, a
\* record of the tenant of the key, in active status and, under a non-empty
\* tag filter, with a tag of the filter; and total counts exactly those
\* records, so no deleted record and no record of another tenant is listed
\* or counted.
C15_ListOnlyTenantActive ==
    [][\A p \in Procs :
        (proc[p].op = "list" /\ proc[p].pc = "Promise.all") =>
            /\ (~proc[p].opts.found /\ proc'[p].opts.found) =>
                 \A i \in DOMAIN proc'[p].out.images :
                     LET r == proc'[p].out.images[i]
                     IN  /\ r.ImageID \in Listable(proc[p].app, proc[p].opts.tags)
                         /\ r = images[r.ImageID]
                         /\ r.AppID = proc[p].app /\ r.Status = ACTIVE
            /\ (~proc[p].opts.counted /\ proc'[p].opts.counted) =>
                 proc'[p].out.total
                    = Cardinality(Listable(proc[p].app, proc[p].opts.tags))]_vars

\* C15 witness: a list with a tag filter has returned the one record that
\* matches while the store holds another record that does not: deleted,
\* of another tenant, or without the tag.
C15_Witness ==
    \E p \in Procs :
        /\ proc[p].op = "list" /\ proc[p].pc = "done" /\ proc[p].res = Ok
        /\ proc[p].opts.tags = <<"t">>
        /\ Len(proc[p].out.images) = 1 /\ proc[p].out.total = 1
        /\ \E id \in DOMAIN images :
             /\ id # proc[p].out.images[1].ImageID
             /\ \/ images[id].Status = DELETED
                \/ images[id].AppID # proc[p].app
                \/ images[id].Tags = <<>>

\* The page size in effect for a requested size (absent: 20), and the size
\* of page number page of total records.
EffectiveSize(query) == IF "limit" \in DOMAIN query THEN Min(query.limit, 100) ELSE 20
PageNumber(query) == IF "page" \in DOMAIN query THEN query.page ELSE 1
Max0(n) == IF n > 0 THEN n ELSE 0
PageLength(total, page, size) == Min(size, Max0(total - (page - 1) * size))

\* The requests the arithmetic is tried on: page 1 to 3, size 1 to 200 or
\* absent, over 0 to 25 matching records.
PageQueries ==
    {<<>>, [page |-> 2], [limit |-> 200], [page |-> 3, limit |-> 1]}
        \cup {[page |-> pg, limit |-> 20] : pg \in 1 .. 3}
Totals == {0, 2, 25}

OptionsOf(query) ==
    [page |-> IF "page" \in DOMAIN query THEN query.page ELSE 1,
     limit |-> IF "limit" \in DOMAIN query THEN query.limit ELSE 20]

\* C16: for page p >= 1 and requested size L >= 1 the window of list has the
\* size min(L, 100) (20 when L is not given) and starts after (p - 1) pages;
\* total is the number of matching records, whatever the page; and the find
\* returns min(size, max(0, matching - (p - 1) * size)) records: 5 of 25 for
\* limit 20, page 2.
C16_Pagination ==
    /\ [](\A query \in PageQueries \cup ListQueries, total \in Totals :
            LET w == pageWindow(OptionsOf(query))
            IN  /\ w.limit = EffectiveSize(query)
                /\ w.skip = (PageNumber(query) - 1) * EffectiveSize(query)
                /\ Len(skipLimit([i \in 1 .. total |-> i], w.skip, w.limit))
                     = PageLength(total, PageNumber(query), EffectiveSize(query)))
    /\ [](Len(skipLimit([i \in 1 .. 25 |-> i],
                        pageWindow([page |-> 2, limit |-> 20]).skip,
                        pageWindow([page |-> 2, limit |-> 20]).limit)) = 5)
    /\ [][\A p \in Procs :
            /\ (proc[p].op = "list" /\ proc[p].pc = "list" /\ proc'[p].pc # "list") =>
                 \E query \in ListQueries :
                     /\ proc'[p].opts.limit = EffectiveSize(query)
                     /\ proc'[p].opts.skip = (PageNumber(query) - 1) * EffectiveSize(query)
            /\ (proc[p].op = "list" /\ proc[p].pc = "Promise.all") =>
                 LET matches == Cardinality(Listable(proc[p].app, proc[p].opts.tags))
                 IN  /\ (~proc[p].opts.found /\ proc'[p].opts.found) =>
                          Len(proc'[p].out.images)
                            = Min(proc[p].opts.limit, Max0(matches - proc[p].opts.skip))
                     /\ (~proc[p].opts.counted /\ proc'[p].opts.counted) =>
                          proc'[p].out.total = matches]_vars

\* C16 witness: page 2 of size 1 over two matching records has returned one
\* record, the older one, and total 2.
C16_Witness ==
    \E p \in Procs :
        /\ proc[p].op = "list" /\ proc[p].pc = "done" /\ proc[p].res = Ok
        /\ proc[p].opts.skip = 1 /\ proc[p].opts.limit = 1
        /\ Len(proc[p].out.images) = 1 /\ proc[p].out.total = 2
        /\ \E id \in DOMAIN images :
             images[id].createdAt > proc[p].out.images[1].createdAt

====
